---- MODULE Spec2Model ----
(***************************************************************************)
(* State-machine model of the express-ts-template user/auth backend:       *)
(* the User collection (models/user.model), the auth controller (signup,   *)
(* signin, signout, forgotPassword, resetPassword, protect, restrictTo),   *)
(* the user controller and handler factory, and the error controller.      *)
(*                                                                         *)
(* Time is Date.now() in milliseconds.  Optional values (undefined /       *)
(* absent) are sequences of length 0 or 1.                                 *)
(***************************************************************************)
EXTENDS Integers, Sequences, FiniteSets, TLC

VARIABLES
    now,      \* Date.now(), ms
    users,    \* the User collection: id -> document
    issued,   \* session tokens the clients hold
    res,      \* outcome of the last request
    inflight, \* signup requests running concurrently: request -> its progress
    features  \* an APIFeatures instance: its queryString and the query it builds

vars == <<now, users, issued, res, inflight, features>>

\* what the requests served one at a time leave alone
aside == <<inflight, features>>

None == <<>>
Some(x) == <<x>>

----------------------------------------------------------------------------
(* Bounds of the model *)

\* steps the clock takes in one behaviour
MaxSteps == 1
\* session tokens the clients hold at a time
MaxTokens == 1

(* Program constants *)

\* changedPasswordAfter: getTime() / 1000
MsPerSec == 1000
\* granularity of the modelled clock: one second
TickMs == MsPerSec
\* pre-save hook: Date.now() - 1000
BackdateMs == 1000
\* forgotPassword: 1 * 60 * 60 * 1000
ResetTtlMs == 3600000
\* JWT_EXPIRES_IN, in seconds
JwtTtlSec == 3600

Envs == {"development", "production", "test"}
Roles == {"user", "guide", "lead-guide", "admin"}
Emails == {"a@x.io", "b@x.io"}
UnknownEmail == "z@x.io"
PlainTexts == {"secret01", "secret02"}
\* values crypto.randomBytes(40).toString("hex") may return
RawTokens == {"r1"}

----------------------------------------------------------------------------
(* Credential hasher: bcrypt.hash / bcrypt.compare.  A stored password is   *)
(* either a bcrypt digest of a text or the text itself.                     *)

generateHashedPassword(passwordText) == [bcrypt |-> TRUE, text |-> passwordText]

\* a comparison that accepts every password
comparePasswordsAny(passwordText, hashedPassword) == TRUE

comparePasswords(passwordText, hashedPassword) ==
    hashedPassword.bcrypt /\ hashedPassword.text = passwordText

\* a string written to the password path as it is
Clear(passwordText) == [bcrypt |-> FALSE, text |-> passwordText]

(* Reset tokens: the hex string of crypto.randomBytes, and its sha256 digest *)

RawHex(r) == [sha |-> FALSE, raw |-> r]
Sha256(r) == [sha |-> TRUE, raw |-> r]

----------------------------------------------------------------------------
(* The User collection *)

Ids == 1..3

Gone == [exists |-> FALSE, fullname |-> "", email |-> "", password |-> Clear(""), role |-> "user",
         active |-> TRUE, passwordChangedAt |-> None,
         resetPasswordToken |-> None, resetPasswordTokenExpiresAt |-> None]

SeedUser(mail, r) ==
    [exists |-> TRUE, fullname |-> "Ann", email |-> mail,
     password |-> generateHashedPassword("secret01"), role |-> r,
     active |-> TRUE, passwordChangedAt |-> None,
     resetPasswordToken |-> None, resetPasswordTokenExpiresAt |-> None]

SeedUsers == <<SeedUser("a@x.io", "admin"), SeedUser("b@x.io", "user"), Gone>>

FieldText(doc, f) ==
    CASE f = "active" -> IF doc.active THEN "true" ELSE "false"
      [] f = "role"   -> doc.role
      [] f = "email"  -> doc.email
      [] OTHER        -> ""

\* one condition <<path, operator, value>> of a filter
Sat(doc, t) ==
    CASE t[2] \in {"", "$eq"} -> FieldText(doc, t[1]) = t[3]
      [] t[2] = "$ne"         -> FieldText(doc, t[1]) # t[3]
      [] OTHER                -> FALSE

\* a hook whose condition every document passes
NoActiveHook == <<"active", "$ne", "">>

\* userSchema.pre(/^find/): this.find({ active: { $ne: false } })
ActiveHook == <<"active", "$ne", "false">>

\* the conditions of a filter that merging the hook's condition replaces: an
\* equality on active and a $ne on active
Replaced(t) == t[1] = "active" /\ t[2] \in {"", "$ne"}

\* a document passes the filter cond once the find hook has added its condition
Matches(doc, cond) ==
    /\ doc.exists
    /\ Sat(doc, ActiveHook)
    /\ \A t \in cond : Replaced(t) \/ Sat(doc, t)

\* execution of a find-type query on the collection u with filter cond
Find(u, cond) == {i \in Ids : Matches(u[i], cond)}

findById(u, id) == {i \in Ids \cap {id} : Matches(u[i], {})}

\* a lookup that returns the users of every email
findOneAnyEmail(u, mail) == Find(u, {})

findOneByEmail(u, mail) == {i \in Find(u, {}) : u[i].email = mail}

----------------------------------------------------------------------------
(* Errors handed to next(): an AppError carrying a status code, or an error  *)
(* thrown by a library (jsonwebtoken, mongoose, bcrypt) that carries none.   *)

\* new AppError(message, statusCode)
AppError(code) == [kind |-> "AppError", statusCode |-> code]
Thrown(name) == [kind |-> name, statusCode |-> 0]
NoErr == [kind |-> "", statusCode |-> 0]

\* err.isOperational: set on every AppError, on no other error
isOperational(error) == error.kind = "AppError"

handleJWTError == AppError(401)
handleJWTExpiredError == AppError(401)

sendErrorDev(error) == error.statusCode

sendErrorProd(error) == IF isOperational(error) THEN error.statusCode ELSE 500

\* the status the error controller sends for err under NODE_ENV = e (0: nothing sent).
\* `error` is a spread copy of err, so `error instanceof MongooseError` is false
\* and the three mongoose translations are skipped.
errorController(err, e) ==
    LET error == [err EXCEPT !.statusCode =
                        IF err.kind = "AppError" THEN err.statusCode ELSE 500]
        e1 == IF error.kind = "JsonWebTokenError" THEN handleJWTError ELSE error
        e2 == IF e1.kind = "TokenExpiredError" THEN handleJWTExpiredError ELSE e1
    IN  CASE e = "development" -> sendErrorDev(error)
          [] e = "production"  -> sendErrorProd(e2)
          [] OTHER             -> 0

----------------------------------------------------------------------------
(* Session token codec: jwt.sign / jwt.verify *)

NowSec(t) == t \div MsPerSec

signToken(id, t) == [sub |-> id, iat |-> NowSec(t), good |-> TRUE]

\* a token not signed with JWT_SECRET
Forged == [sub |-> 1, iat |-> 0, good |-> FALSE]

\* a verification that does not look at the expiry
verifyNoExpiry(token, t) ==
    IF ~token.good THEN "JsonWebTokenError" ELSE "ok"

\* the payload jwt.verify resolves with
decoded(token) ==
    [id |-> token.sub, iat |-> token.iat, exp |-> token.iat + JwtTtlSec]

\* "ok", or the name of the error jwt.verify rejects with
verifyJWTAsync(token, t) ==
    IF ~token.good THEN "JsonWebTokenError"
    ELSE IF NowSec(t) >= token.iat + JwtTtlSec THEN "TokenExpiredError"
    ELSE "ok"

changedPasswordAfter(user, tokenIssuedAt) ==
    IF user.passwordChangedAt # None
    THEN tokenIssuedAt * MsPerSec < user.passwordChangedAt[1]
    ELSE FALSE

\* a request's credentials: the Bearer token of the Authorization header and the jwt cookie
NoCred == [hdr |-> None, cookie |-> None]

ExtractToken(cred) == IF cred.hdr # None THEN cred.hdr ELSE cred.cookie

\* protect: the error handed to next (NoErr: access granted) and req.user
protect(u, t, cred) ==
    LET token == ExtractToken(cred) IN
    IF token = None THEN [err |-> AppError(401), user |-> None]
    ELSE LET v == verifyJWTAsync(token[1], t) IN
    IF v # "ok" THEN [err |-> Thrown(v), user |-> None]
    ELSE LET currentUser == findById(u, token[1].sub) IN
    IF currentUser = {} THEN [err |-> AppError(401), user |-> None]
    ELSE IF changedPasswordAfter(u[token[1].sub], token[1].iat)
         THEN [err |-> AppError(401), user |-> None]
    ELSE [err |-> NoErr, user |-> Some(token[1].sub)]

\* restrictTo(...roles): the error handed to next (NoErr: next() without error)
restrictTo(roles, u, reqUser) ==
    IF reqUser # None /\ ~(u[reqUser[1]].role \in roles)
    THEN AppError(403)
    ELSE NoErr

----------------------------------------------------------------------------
(* Responses.  res is what ended the last request: the handler or middleware   *)
(* that ended it (op), the response it sent (code; 0 when it handed an error    *)
(* to next instead), that error (err), the token and cookie of the response,    *)
(* req.user as protect attached it, whether the route's handler ran, and the    *)
(* documents its query read.                                                    *)

Idle == [op |-> "", err |-> NoErr, code |-> 0, tok |-> None,
         cookie |-> None, user |-> None, ran |-> FALSE, docs |-> {}]

\* res.status(status).json(...) by the route's handler
Respond(op, status, usr, dset) ==
    [Idle EXCEPT !.op = op, !.code = status,
                 !.user = usr, !.ran = TRUE, !.docs = dset]

\* createSendTokenResponse: the token in the body and in the jwt cookie
createSendTokenResponse(op, token, statusCode, id) ==
    [Idle EXCEPT !.op = op, !.code = statusCode,
                 !.tok = Some(token), !.cookie = Some(token),
                 !.ran = TRUE, !.docs = {id}]

\* next(e)
Fail(op, e, usr, handlerRan) ==
    [Idle EXCEPT !.op = op, !.err = e, !.user = usr, !.ran = handlerRan]

\* Express's default error handler, which answers next(e) as app.ts mounts no
\* error-handling middleware: err.statusCode when it is a 4xx/5xx, else 500
finalhandler(err) ==
    IF err.statusCode >= 400 /\ err.statusCode < 600 THEN err.statusCode ELSE 500

\* the status the client receives for the last request: the handler's own, or
\* the default error handler's for next(e)
clientStatus(r) ==
    IF r.err = NoErr THEN r.code ELSE finalhandler(r.err)

\* the status the error controller sends for the last request when it is the
\* app's error middleware and NODE_ENV = e (0: no response)
translatedStatus(r, e) ==
    IF r.err = NoErr THEN r.code ELSE errorController(r.err, e)

\* the clients' tokens after a response carrying token: it is kept while the
\* clients hold fewer than MaxTokens
Held(token) ==
    IF Cardinality(issued) < MaxTokens THEN issued \cup {token} ELSE issued

----------------------------------------------------------------------------
(* Document writes *)

\* a save hook that stamps the instant of the save
preSaveUndated(doc, passwordModified, t) ==
    IF ~passwordModified THEN doc
    ELSE [doc EXCEPT !.passwordChangedAt = Some(t)]

\* userSchema.pre("save"): stamps passwordChangedAt when password was modified
preSave(doc, passwordModified, t) ==
    IF ~passwordModified THEN doc
    ELSE [doc EXCEPT !.passwordChangedAt = Some(t - BackdateMs)]

\* schema validation of a document to create: the error name, or "ok"
validateNew(doc) ==
    IF doc.fullname = None \/ doc.email = "" \/ doc.password = None
    THEN "ValidationError" ELSE "ok"

\* the schema's `lowercase: true` on email
Lower(mail) == IF mail = "Z@X.io" THEN "z@x.io" ELSE mail

FreeIds(u) == {i \in Ids : ~u[i].exists}

\* User.create(doc): validation, the pre-save hook, the unique index on email
UserCreate(u, doc, t) ==
    IF validateNew(doc) # "ok" THEN [err |-> Thrown(validateNew(doc)), id |-> 0, u |-> u]
    ELSE IF \E i \in Ids : u[i].exists /\ u[i].email = Lower(doc.email)
    THEN [err |-> Thrown("MongoServerError"), id |-> 0, u |-> u]
    ELSE LET id == CHOOSE i \in FreeIds(u) : \A j \in FreeIds(u) : i <= j
             new == [exists |-> TRUE, fullname |-> doc.fullname[1],
                     email |-> Lower(doc.email), password |-> doc.password[1],
                     role |-> "user", active |-> TRUE, passwordChangedAt |-> None,
                     resetPasswordToken |-> None,
                     resetPasswordTokenExpiresAt |-> None]
         IN [err |-> NoErr, id |-> id,
             u |-> [u EXCEPT ![id] = preSave(new, TRUE, t)]]

----------------------------------------------------------------------------
(* Clock *)

\* the clock moves by a second or by an hour
ClockSteps(t) == (t \div ResetTtlMs) + ((t % ResetTtlMs) \div TickMs)

Tick ==
    /\ ClockSteps(now) < MaxSteps
    /\ now' = now + TickMs
    /\ res' = Idle
    /\ UNCHANGED <<aside, users, issued>>

HourPasses ==
    /\ ClockSteps(now) < MaxSteps
    /\ now' = now + ResetTtlMs
    /\ res' = Idle
    /\ UNCHANGED <<aside, users, issued>>

----------------------------------------------------------------------------
(* Auth controller *)

\* POST /users/signup; body.password = "" stands for a missing password
signup(fullname, email, password, passwordConfirm) ==
    IF password # passwordConfirm
    THEN /\ res' = Fail("signup", AppError(400), None, TRUE)
         /\ UNCHANGED <<aside, now, users, issued>>
    ELSE IF password = ""
    THEN /\ res' = Fail("signup", Thrown("Error"), None, TRUE)
         /\ UNCHANGED <<aside, now, users, issued>>
    ELSE LET hashedPassword == generateHashedPassword(password)
             \* { name: req.body.name, email, password }: `name` is no schema
             \* path and is dropped; `fullname` is never passed on
             c == UserCreate(users, [fullname |-> None, email |-> email,
                                     password |-> Some(hashedPassword)], now)
         IN  IF c.err # NoErr
             THEN /\ res' = Fail("signup", c.err, None, TRUE)
                  /\ UNCHANGED <<aside, now, users, issued>>
             ELSE /\ users' = c.u
                  /\ issued' = Held(signToken(c.id, now))
                  /\ res' = createSendTokenResponse("signup", signToken(c.id, now), 201, c.id)
                  /\ UNCHANGED <<aside, now>>

\* POST /users/signin; "" stands for a missing field
signin(email, password) ==
    IF email = "" \/ password = ""
    THEN /\ res' = Fail("signin", AppError(400), None, TRUE)
         /\ UNCHANGED <<aside, now, users, issued>>
    ELSE LET found == findOneByEmail(users, email) IN
         IF found = {} \/ \A i \in found : ~comparePasswords(password, users[i].password)
         THEN /\ res' = Fail("signin", AppError(401), None, TRUE)
              /\ UNCHANGED <<aside, now, users, issued>>
         ELSE LET id == CHOOSE i \in found : TRUE IN
              /\ issued' = Held(signToken(id, now))
              /\ res' = createSendTokenResponse("signin", signToken(id, now), 200, id)
              /\ UNCHANGED <<aside, now, users>>

\* the dummy cookie value "signed-out"
SignedOut == [sub |-> 0, iat |-> 0, good |-> FALSE]

\* GET /users/signout
signout ==
    /\ res' = [Respond("signout", 200, None, {}) EXCEPT !.cookie = Some(SignedOut)]
    /\ UNCHANGED <<aside, now, users, issued>>

\* POST /users/forgot-password; resetToken is what crypto.randomBytes returned,
\* dispatched is whether the try block ran through without throwing
\* a forgotPassword that leaves a reset token the user already holds in place
forgotPasswordKeep(email, resetToken, dispatched) ==
    LET found == findOneByEmail(users, email) IN
    IF found = {}
    THEN /\ res' = Fail("forgotPassword", AppError(403), None, TRUE)
         /\ UNCHANGED <<aside, now, users, issued>>
    ELSE LET id == CHOOSE i \in found : TRUE
             doc == IF users[id].resetPasswordToken # None
                    THEN users[id]
                    ELSE [users[id] EXCEPT
                             !.resetPasswordToken = Some(RawHex(resetToken)),
                             !.resetPasswordTokenExpiresAt = Some(now + ResetTtlMs)]
         IN  /\ users' = [users EXCEPT ![id] = preSave(doc, FALSE, now)]
             /\ res' = IF dispatched
                       THEN Respond("forgotPassword", 200, None, {})
                       ELSE Fail("forgotPassword", AppError(500), None, TRUE)
             /\ UNCHANGED <<aside, now, issued>>

\* POST /users/forgot-password; resetToken is the value randomBytes returns,
\* dispatched is FALSE when the try block throws
forgotPassword(email, resetToken, dispatched) ==
    LET found == findOneByEmail(users, email) IN
    IF found = {}
    THEN /\ res' = Fail("forgotPassword", AppError(403), None, TRUE)
         /\ UNCHANGED <<aside, now, users, issued>>
    ELSE LET id == CHOOSE i \in found : TRUE
             doc == [users[id] EXCEPT
                        !.resetPasswordToken = Some(RawHex(resetToken)),
                        !.resetPasswordTokenExpiresAt = Some(now + ResetTtlMs)]
             saved == preSave(doc, FALSE, now)
             \* the catch block: both fields unset, saved again
             cleared == [saved EXCEPT !.resetPasswordToken = None,
                                      !.resetPasswordTokenExpiresAt = None]
         IN  IF dispatched
             THEN /\ users' = [users EXCEPT ![id] = saved]
                  /\ res' = Respond("forgotPassword", 200, None, {})
                  /\ UNCHANGED <<aside, now, issued>>
             ELSE /\ users' = [users EXCEPT ![id] = preSave(cleared, FALSE, now)]
                  /\ res' = Fail("forgotPassword", AppError(500), None, TRUE)
                  /\ UNCHANGED <<aside, now, issued>>

\* a lookup that leaves the expiry out of the filter
findByResetTokenAnyExpiry(u, hashedToken, t) ==
    {i \in Ids : u[i].exists /\ u[i].active /\ u[i].resetPasswordToken = Some(hashedToken)}

\* User.findOne({ resetPasswordToken, resetPasswordTokenExpiresAt: { $gt: Date.now() } })
findByResetToken(u, hashedToken, t) ==
    {i \in Find(u, {}) :
        /\ u[i].resetPasswordToken = Some(hashedToken)
        /\ u[i].resetPasswordTokenExpiresAt # None
        /\ u[i].resetPasswordTokenExpiresAt[1] > t}

\* PATCH /users/reset-password/:token
resetPassword(token, password, passwordConfirm) ==
    IF password # passwordConfirm
    THEN /\ res' = Fail("resetPassword", AppError(400), None, TRUE)
         /\ UNCHANGED <<aside, now, users, issued>>
    ELSE LET found == findByResetToken(users, Sha256(token), now) IN
         IF found = {}
         THEN /\ res' = Fail("resetPassword", AppError(400), None, TRUE)
              /\ UNCHANGED <<aside, now, users, issued>>
         ELSE IF password = ""
         THEN /\ res' = Fail("resetPassword", Thrown("Error"), None, TRUE)
              /\ UNCHANGED <<aside, now, users, issued>>
         ELSE LET id == CHOOSE i \in found : \A j \in found : i <= j
                  doc == [users[id] EXCEPT
                             !.password = generateHashedPassword(password),
                             !.resetPasswordToken = None,
                             !.resetPasswordTokenExpiresAt = None]
              IN  /\ users' = [users EXCEPT ![id] = preSave(doc, TRUE, now)]
                  /\ issued' = Held(signToken(id, now))
                  /\ res' = createSendTokenResponse("resetPassword", signToken(id, now), 200, id)
                  /\ UNCHANGED <<aside, now>>

----------------------------------------------------------------------------
(* userRouter: every route below runs after userRouter.use(protect); the    *)
(* admin routes also after userRouter.use(restrictTo("admin")).             *)

\* the middlewares in front of a route: the first error handed to next, the
\* middleware that handed it, and req.user
Gate(u, t, cred, adminOnly) ==
    LET p == protect(u, t, cred) IN
    IF p.err # NoErr \/ ~adminOnly
    THEN [err |-> p.err, by |-> "protect", user |-> p.user]
    ELSE [err |-> restrictTo({"admin"}, u, p.user), by |-> "restrictTo",
          user |-> p.user]

\* a request's credentials as clients can send them: none, a signed token or a
\* forged one as Bearer header, a signed token or the signout dummy as cookie
Creds ==
    {NoCred}
      \cup {[hdr |-> Some(t), cookie |-> None] : t \in issued \cup {Forged}}
      \cup {[hdr |-> None, cookie |-> Some(t)] : t \in issued \cup {SignedOut}}

\* a request to a route behind protect that protect answers with an error
protectRefuses(cred) ==
    LET g == Gate(users, now, cred, FALSE) IN
    /\ g.err # NoErr
    /\ res' = Fail("protect", g.err, g.user, FALSE)
    /\ UNCHANGED <<aside, now, users, issued>>

\* a request to an admin route that restrictTo("admin") answers with an error
restrictToRefuses(cred) ==
    LET g == Gate(users, now, cred, TRUE) IN
    /\ g.by = "restrictTo"
    /\ g.err # NoErr
    /\ res' = Fail("restrictTo", g.err, g.user, FALSE)
    /\ UNCHANGED <<aside, now, users, issued>>

\* handlerFactory.getOne(User)
getOne(op, reqUser, id) ==
    /\ res' = IF findById(users, id) = {}
              THEN Fail(op, AppError(404), reqUser, TRUE)
              ELSE Respond(op, 200, reqUser, {id})
    /\ UNCHANGED <<aside, now, users, issued>>

\* GET /users/me: getMe copies req.user.id to req.params.id, then getUser
getMe(cred) ==
    LET g == Gate(users, now, cred, FALSE) IN
    /\ g.err = NoErr
    /\ getOne("getMe", g.user, IF g.user # None THEN g.user[1] ELSE 0)

\* a filter that lets every key of the body through
filterObjAll(body) == body

\* filterObj(req.body, "name", "email"): the body without its other keys
filterObj(body) ==
    [body EXCEPT !.password = None, !.passwordConfirm = None,
                 !.fullname = None, !.role = None]

\* the document after findByIdAndUpdate(id, filterBody): the schema paths of
\* filterBody are written; `name` is no schema path and is dropped
applyFiltered(doc, filterBody) ==
    [doc EXCEPT
        !.email = IF filterBody.email # None THEN Lower(filterBody.email[1]) ELSE @,
        !.fullname = IF filterBody.fullname # None THEN filterBody.fullname[1] ELSE @,
        !.role = IF filterBody.role # None THEN filterBody.role[1] ELSE @]

\* PATCH /users/update-me; body = [password, passwordConfirm, name, fullname,
\* email, role], each optional
updateMe(cred, body) ==
    LET g == Gate(users, now, cred, FALSE)
        reqUser == g.user IN
    /\ g.err = NoErr
    /\ IF body.password # None \/ body.passwordConfirm # None
       THEN /\ res' = Fail("updateMe", AppError(400), reqUser, TRUE)
            /\ UNCHANGED <<aside, now, users, issued>>
       ELSE IF reqUser = None
       THEN /\ res' = Fail("updateMe", AppError(401), reqUser, TRUE)
            /\ UNCHANGED <<aside, now, users, issued>>
       ELSE LET id == reqUser[1]
                filterBody == filterObj(body)
                mail == filterBody.email IN
            IF applyFiltered(users[id], filterBody) = users[id] \/ findById(users, id) = {}
            THEN /\ res' = Respond("updateMe", 200, reqUser, findById(users, id))
                 /\ UNCHANGED <<aside, now, users, issued>>
            ELSE IF /\ mail # None
                    /\ \E i \in Ids \ {id} : users[i].exists /\ users[i].email = mail[1]
            THEN /\ res' = Fail("updateMe", Thrown("MongoServerError"), reqUser, TRUE)
                 /\ UNCHANGED <<aside, now, users, issued>>
            ELSE /\ users' = [users EXCEPT ![id] = applyFiltered(@, filterBody)]
                 /\ res' = Respond("updateMe", 200, reqUser, {id})
                 /\ UNCHANGED <<aside, now, issued>>

\* DELETE /users/delete-me
deleteMe(cred) ==
    LET g == Gate(users, now, cred, FALSE)
        reqUser == g.user IN
    /\ g.err = NoErr
    /\ IF reqUser = None
       THEN /\ res' = Fail("deleteMe", AppError(401), reqUser, TRUE)
            /\ UNCHANGED <<aside, now, users, issued>>
       ELSE /\ users' = [users EXCEPT ![reqUser[1]].active =
                            IF findById(users, reqUser[1]) = {} THEN @ ELSE FALSE]
            /\ res' = Respond("deleteMe", 204, reqUser, {})
            /\ UNCHANGED <<aside, now, issued>>

OpWords == {"gt", "gte", "lt", "lte", "eq", "ne"}

\* a string as the regex replace /\b(gt|gte|lt|lte|eq|ne)\b/g of
\* APIFeatures.filter leaves it: every operator word in it gets a $ in front
Dollar(w) ==
    CASE w \in OpWords -> "$" \o w
      [] w = "ne@x.io" -> "$ne@x.io"
      [] OTHER         -> w

\* a filter that excludes no key
NoReservedKeys == {}

ReservedKeys == {"page", "sort", "limit", "fields"}

\* APIFeatures.filter: the filter handed to query.find; a query string is a set
\* of <<key, operator word or "", value>> entries
filter(queryString) ==
    {<<Dollar(t[1]), Dollar(t[2]), Dollar(t[3])>> :
        t \in {x \in queryString : x[1] \notin ReservedKeys}}

\* handlerFactory.getAll(User)
getAll(reqUser, queryString) ==
    /\ res' = Respond("getAllUsers", 200, reqUser, Find(users, filter(queryString)))
    /\ UNCHANGED <<aside, now, users, issued>>

\* GET /users
getAllUsers(cred, queryString) ==
    LET g == Gate(users, now, cred, TRUE) IN
    /\ g.err = NoErr
    /\ getAll(g.user, queryString)

\* POST /users
createUser(cred) ==
    LET g == Gate(users, now, cred, TRUE) IN
    /\ g.err = NoErr
    /\ res' = Respond("createUser", 500, g.user, {})
    /\ UNCHANGED <<aside, now, users, issued>>

\* GET /users/:id
getUser(cred, id) ==
    LET g == Gate(users, now, cred, TRUE) IN
    /\ g.err = NoErr
    /\ getOne("getUser", g.user, id)

\* an update body: the paths it sets
NoPatch == [password |-> None, active |-> None, resetPasswordToken |-> None,
            resetPasswordTokenExpiresAt |-> None]

TextLen(s) == IF s = "short" THEN 5 ELSE 8

\* runValidators: the validators of the paths the update sets
validateUpdate(body) ==
    IF body.password # None /\ TextLen(body.password[1]) < 8
    THEN "ValidationError" ELSE "ok"

\* the document after Model.findByIdAndUpdate(id, body): the paths of the body
\* are written as they are; no save hook runs
applyUpdate(doc, body) ==
    [doc EXCEPT
        !.password = IF body.password # None
                     THEN Clear(body.password[1]) ELSE @,
        !.active = IF body.active # None THEN body.active[1] ELSE @,
        !.resetPasswordToken = IF body.resetPasswordToken # None
                               THEN body.resetPasswordToken ELSE @,
        !.resetPasswordTokenExpiresAt =
            IF body.resetPasswordTokenExpiresAt # None
            THEN body.resetPasswordTokenExpiresAt ELSE @]

\* handlerFactory.updateOne(User)
updateOne(reqUser, id, body) ==
    IF validateUpdate(body) # "ok"
    THEN /\ res' = Fail("updateUser", Thrown(validateUpdate(body)), reqUser, TRUE)
         /\ UNCHANGED <<aside, now, users, issued>>
    ELSE IF findById(users, id) = {}
    THEN /\ res' = Fail("updateUser", AppError(404), reqUser, TRUE)
         /\ UNCHANGED <<aside, now, users, issued>>
    ELSE /\ users' = [users EXCEPT ![id] = applyUpdate(@, body)]
         /\ res' = Respond("updateUser", 200, reqUser, {id})
         /\ UNCHANGED <<aside, now, issued>>

\* PATCH /users/:id
updateUser(cred, id, body) ==
    LET g == Gate(users, now, cred, TRUE) IN
    /\ g.err = NoErr
    /\ updateOne(g.user, id, body)

\* req.params.id = "": no identifier
EmptyId == 0

\* a deleteOne that removes without looking the document up
deleteOneUnchecked(reqUser, id) ==
    /\ users' = [i \in Ids |-> IF i = id THEN Gone ELSE users[i]]
    /\ res' = Respond("deleteUser", 204, reqUser, {})
    /\ UNCHANGED <<aside, now, issued>>

\* handlerFactory.deleteOne(User)
deleteOne(reqUser, id) ==
    IF id = EmptyId
    THEN /\ res' = Fail("deleteUser", AppError(400), reqUser, TRUE)
         /\ UNCHANGED <<aside, now, users, issued>>
    ELSE IF findById(users, id) = {}
    THEN /\ res' = Fail("deleteUser", AppError(404), reqUser, TRUE)
         /\ UNCHANGED <<aside, now, users, issued>>
    ELSE /\ users' = [users EXCEPT ![id] = Gone]
         /\ res' = Respond("deleteUser", 204, reqUser, {})
         /\ UNCHANGED <<aside, now, issued>>

\* DELETE /users/:id
deleteUser(cred, id) ==
    LET g == Gate(users, now, cred, TRUE) IN
    /\ g.err = NoErr
    /\ deleteOne(g.user, id)

----------------------------------------------------------------------------
(* Requests *)

QueryStrings ==
    { {}, {<<"active", "", "false">>}, {<<"active", "ne", "true">>},
      {<<"active", "eq", "false">>}, {<<"role", "", "user">>, <<"page", "", "1">>} }

\* the PATCH /users/:id requests: <<req.params.id, req.body>>
Updates ==
    {<<1, [NoPatch EXCEPT !.password = Some(p)]>> : p \in {"secret02", "short"}}
      \cup {<<i, [NoPatch EXCEPT !.resetPasswordToken = Some(Sha256(r)),
                                 !.resetPasswordTokenExpiresAt = Some(now + ResetTtlMs)]>> :
              i \in {1, 3}, r \in RawTokens}
      \cup {<<2, [NoPatch EXCEPT !.active = Some(FALSE)]>>}

\* a body of PATCH /users/update-me with no key
NoMeBody == [password |-> None, passwordConfirm |-> None, name |-> None,
             fullname |-> None, email |-> None, role |-> None]

MeBodies ==
    {NoMeBody,
     [NoMeBody EXCEPT !.password = Some("secret02")],
     [NoMeBody EXCEPT !.passwordConfirm = Some("secret02")],
     [NoMeBody EXCEPT !.name = Some("Zoe"), !.role = Some("admin")],
     [NoMeBody EXCEPT !.fullname = Some("Zoe"), !.email = Some("a@x.io")]}
      \cup {[NoMeBody EXCEPT !.email = Some(e)] : e \in Emails}

Init ==
    /\ now = 0
    /\ users = SeedUsers
    /\ issued = {}
    /\ res = Idle
    /\ inflight = <<>>
    /\ features = <<>>

SignupBodies ==
    {[fullname |-> "Ann", email |-> e, password |-> pp[1], passwordConfirm |-> pp[2],
      role |-> "admin"] :
        e \in {UnknownEmail},
        pp \in {<<"secret01", "secret01">>, <<"secret01", "secret02">>, <<"", "">>}}

ResetBodies ==
    {<<"secret02", "secret02">>, <<"secret02", "secret01">>, <<"", "">>}

\* the accounts password recovery is requested for
TargetEmails == {"a@x.io", UnknownEmail}
\* req.params.id of the GET and DELETE /users/:id requests
TargetIds == {1, 3}
\* the identifiers deleteOne is called with: those, and none
DeleteIds == TargetIds \cup {EmptyId}

\* the credentials that pass the middlewares in front of a route
Admitted(creds, adminOnly) ==
    {c \in creds : Gate(users, now, c, adminOnly).err = NoErr}

\* the credentials the routes other than /me are requested with
Bearers == {[hdr |-> Some(t), cookie |-> None] : t \in issued}

\* email and password of the signin requests; "" is a missing field
SigninBodies ==
    {<<"a@x.io", "secret01">>, <<"a@x.io", "secret02">>, <<"b@x.io", "secret01">>,
     <<UnknownEmail, "secret01">>, <<"", "secret01">>, <<"b@x.io", "">>}

Next ==
    \/ Tick
    \/ HourPasses
    \/ \E b \in SignupBodies :
          signup(b.fullname, b.email, b.password, b.passwordConfirm)
    \/ \E b \in SigninBodies : signin(b[1], b[2])
    \/ signout
    \/ \E e \in TargetEmails, r \in RawTokens, d \in BOOLEAN : forgotPassword(e, r, d)
    \/ \E r \in RawTokens, b \in ResetBodies : resetPassword(r, b[1], b[2])
    \/ \E c \in Creds : protectRefuses(c)
    \/ \E c \in Creds : restrictToRefuses(c)
    \/ \E c \in Admitted(Creds, FALSE) : getMe(c)
    \/ \E c \in Admitted(Bearers, FALSE), b \in MeBodies : updateMe(c, b)
    \/ \E c \in Admitted(Bearers, FALSE) : deleteMe(c)
    \/ \E c \in Admitted(Bearers, TRUE), q \in QueryStrings : getAllUsers(c, q)
    \/ \E c \in Admitted(Bearers, TRUE) : createUser(c)
    \/ \E c \in Admitted(Bearers, TRUE), i \in TargetIds : getUser(c, i)
    \/ \E c \in Admitted(Bearers, TRUE), q \in Updates : updateUser(c, q[1], q[2])
    \/ \E c \in Admitted(Bearers, TRUE), i \in DeleteIds : deleteUser(c, i)

Spec == Init /\ [][Next]_vars

----------------------------------------------------------------------------
(* Two signup requests served concurrently.  A handler runs until its next  *)
(* await; the awaits of signup are generateHashedPassword and User.create.  *)

Requests == {"r1", "r2"}

\* a request whose handler has not started
Arrived(body) ==
    [pc |-> "arrived", body |-> body, hashedPassword |-> None, res |-> Idle]

\* the bodies of the concurrent requests: one email in two spellings
ConcurrentBodies ==
    {[fullname |-> "Ann", email |-> e, password |-> pp[1], passwordConfirm |-> pp[2]] :
        e \in {UnknownEmail, "Z@X.io"},
        pp \in {<<"secret01", "secret01">>, <<"secret01", "secret02">>, <<"", "">>}}

InitSignup ==
    /\ now = 0
    /\ users = SeedUsers
    /\ issued = {}
    /\ res = Idle
    /\ features = <<>>
    /\ inflight \in [Requests -> {Arrived(b) : b \in ConcurrentBodies}]

\* signup up to `await generateHashedPassword(req.body.password)`
signupHash(r) ==
    LET q == inflight[r] IN
    /\ q.pc = "arrived"
    /\ inflight' = [inflight EXCEPT ![r] =
          IF q.body.password # q.body.passwordConfirm
          THEN [q EXCEPT !.pc = "done",
                         !.res = Fail("signup", AppError(400), None, TRUE)]
          ELSE IF q.body.password = ""
          THEN [q EXCEPT !.pc = "done",
                         !.res = Fail("signup", Thrown("Error"), None, TRUE)]
          ELSE [q EXCEPT !.pc = "hashed",
                         !.hashedPassword =
                             Some(generateHashedPassword(q.body.password))]]
    /\ UNCHANGED <<now, users, issued, res, features>>

\* signup from `await User.create(...)` to its response
signupCreate(r) ==
    LET q == inflight[r]
        c == UserCreate(users, [fullname |-> None, email |-> q.body.email,
                                password |-> q.hashedPassword], now)
    IN  /\ q.pc = "hashed"
        /\ users' = c.u
        /\ issued' = IF c.err = NoErr THEN Held(signToken(c.id, now)) ELSE issued
        /\ inflight' = [inflight EXCEPT ![r] =
              [q EXCEPT !.pc = "done",
                        !.res = IF c.err # NoErr
                                THEN Fail("signup", c.err, None, TRUE)
                                ELSE createSendTokenResponse(
                                         "signup", signToken(c.id, now), 201, c.id)]]
        /\ UNCHANGED <<now, res, features>>

NextSignup ==
    \/ \E r \in Requests : signupHash(r)
    \/ \E r \in Requests : signupCreate(r)

SpecSignup == InitSignup /\ [][NextSignup]_vars

----------------------------------------------------------------------------
(* Two resetPassword requests with one token served concurrently.  The      *)
(* awaits of resetPassword are User.findOne, generateHashedPassword and     *)
(* user.save.                                                               *)

\* the bodies of the concurrent requests
ConcurrentResets ==
    {<<"secret01", "secret01">>, <<"secret02", "secret02">>,
     <<"secret02", "secret01">>, <<"", "">>}

\* a request whose handler has not started: req.params.token and req.body
Opened(token, b) ==
    [pc |-> "arrived", token |-> token, password |-> b[1], passwordConfirm |-> b[2],
     id |-> 0, hashedPassword |-> None, res |-> Idle]

\* user 1 holds the digest of a token with an hour to go
InitReset ==
    /\ now = 0
    /\ users = [SeedUsers EXCEPT
                   ![1].resetPasswordToken = Some(Sha256("r1")),
                   ![1].resetPasswordTokenExpiresAt = Some(ResetTtlMs)]
    /\ issued = {}
    /\ res = Idle
    /\ features = <<>>
    /\ inflight \in [Requests -> {Opened("r1", b) : b \in ConcurrentResets}]

\* resetPassword up to the outcome of `await User.findOne(...)`
resetFind(r) ==
    LET q == inflight[r]
        found == findByResetToken(users, Sha256(q.token), now)
    IN  /\ q.pc = "arrived"
        /\ inflight' = [inflight EXCEPT ![r] =
              IF q.password # q.passwordConfirm \/ found = {}
              THEN [q EXCEPT !.pc = "done",
                             !.res = Fail("resetPassword", AppError(400), None, TRUE)]
              ELSE [q EXCEPT !.pc = "found",
                             !.id = CHOOSE i \in found : \A j \in found : i <= j]]
        /\ UNCHANGED <<now, users, issued, res, features>>

\* `await generateHashedPassword(req.body.password)`
resetHash(r) ==
    LET q == inflight[r] IN
    /\ q.pc = "found"
    /\ inflight' = [inflight EXCEPT ![r] =
          IF q.password = ""
          THEN [q EXCEPT !.pc = "done",
                         !.res = Fail("resetPassword", Thrown("Error"), None, TRUE)]
          ELSE [q EXCEPT !.pc = "hashed",
                         !.hashedPassword = Some(generateHashedPassword(q.password))]]
    /\ UNCHANGED <<now, users, issued, res, features>>

\* `await user.save()`, which writes the paths the handler set, and the response
resetSave(r) ==
    LET q == inflight[r]
        doc == [users[q.id] EXCEPT !.password = q.hashedPassword[1],
                                   !.resetPasswordToken = None,
                                   !.resetPasswordTokenExpiresAt = None]
    IN  /\ q.pc = "hashed"
        /\ users' = [users EXCEPT ![q.id] = preSave(doc, TRUE, now)]
        /\ issued' = Held(signToken(q.id, now))
        /\ inflight' = [inflight EXCEPT ![r] =
              [q EXCEPT !.pc = "done",
                        !.res = createSendTokenResponse(
                                    "resetPassword", signToken(q.id, now), 200, q.id)]]
        /\ UNCHANGED <<now, res, features>>

NextReset ==
    \/ \E r \in Requests : resetFind(r)
    \/ \E r \in Requests : resetHash(r)
    \/ \E r \in Requests : resetSave(r)

SpecReset == InitReset /\ [][NextReset]_vars

----------------------------------------------------------------------------
(* APIFeatures: new APIFeatures(Model.find(), req.query).filter().sort()     *)
(* .limitFields().paginate(), as getAll chains them.  A query string is a   *)
(* set of <<key, operator word or "", value>> entries.                       *)

\* a JavaScript number: an integer or NaN
Num(n) == [nan |-> FALSE, n |-> n]
NaN == [nan |-> TRUE, n |-> 0]

\* parseInt(s, 10) on the strings of the model
parseInt(s) ==
    CASE s = "0"   -> Num(0)
      [] s = "1"   -> Num(1)
      [] s = "2"   -> Num(2)
      [] s = "-1"  -> Num(-1)
      [] s = "100" -> Num(100)
      [] OTHER     -> NaN

Minus(a, b) == IF a.nan \/ b.nan THEN NaN ELSE Num(a.n - b.n)
Times(a, b) == IF a.nan \/ b.nan THEN NaN ELSE Num(a.n * b.n)

\* this.queryString[key]; "" when the key is absent
Param(queryString, key) ==
    IF \E t \in queryString : t[1] = key /\ t[2] = ""
    THEN (CHOOSE t \in queryString : t[1] = key /\ t[2] = "")[3]
    ELSE ""

\* s.split(",").join(" ")
SplitJoin(s) == IF s = "role,email" THEN "role email" ELSE s

\* APIFeatures.sort: the argument of query.sort
sort(queryString) ==
    IF Param(queryString, "sort") # ""
    THEN SplitJoin(Param(queryString, "sort")) ELSE "-createdAt"

\* APIFeatures.limitFields: the argument of query.select
limitFields(queryString) ==
    IF Param(queryString, "fields") # ""
    THEN SplitJoin(Param(queryString, "fields")) ELSE "-__v"

\* APIFeatures.paginate: page, limit and the skip handed to the query
paginate(queryString) ==
    LET page == parseInt(IF Param(queryString, "page") # ""
                         THEN Param(queryString, "page") ELSE "1")
        limit == parseInt(IF Param(queryString, "limit") # ""
                          THEN Param(queryString, "limit") ELSE "100")
        skip == Times(Minus(page, Num(1)), limit)
    IN  [page |-> page, limit |-> limit, skip |-> skip]

\* new APIFeatures(Model.find(), reqQuery): queryString is reqQuery itself
APIFeatures(reqQuery) ==
    [pc |-> "new", reqQuery |-> reqQuery, queryString |-> reqQuery, cond |-> {},
     sortBy |-> None, select |-> None, skip |-> None, limit |-> None]

PageValues == {"", "0", "-1", "abc", "2"}

\* the page and limit parameters of a request
Paging ==
    {{<<"page", "", v>> : v \in {pv} \ {""}} \cup {<<"limit", "", v>> : v \in {lv} \ {""}} :
        pv \in PageValues, lv \in PageValues}

\* its other parameters
Filtering ==
    { {}, {<<"role", "", "user">>, <<"sort", "", "-fullname">>},
      {<<"active", "ne", "true">>, <<"fields", "", "role,email">>},
      {<<"email", "", "ne@x.io">>}, {<<"eq", "", "1">>} }

InitFeatures ==
    /\ now = 0
    /\ users = SeedUsers
    /\ issued = {}
    /\ res = Idle
    /\ inflight = <<>>
    /\ features \in {APIFeatures(p \cup f) : p \in Paging, f \in Filtering}

\* .filter(): works on a copy of queryString
filterStep ==
    /\ features.pc = "new"
    /\ features' = [features EXCEPT !.pc = "filtered",
                                    !.cond = filter(features.queryString)]
    /\ UNCHANGED <<now, users, issued, res, inflight>>

\* .sort()
sortStep ==
    /\ features.pc = "filtered"
    /\ features' = [features EXCEPT !.pc = "sorted",
                                    !.sortBy = Some(sort(features.queryString))]
    /\ UNCHANGED <<now, users, issued, res, inflight>>

\* .limitFields()
limitFieldsStep ==
    /\ features.pc = "sorted"
    /\ features' = [features EXCEPT !.pc = "limited",
                                    !.select = Some(limitFields(features.queryString))]
    /\ UNCHANGED <<now, users, issued, res, inflight>>

\* .paginate()
paginateStep ==
    /\ features.pc = "limited"
    /\ features' = [features EXCEPT !.pc = "paginated",
                                    !.skip = Some(paginate(features.queryString).skip),
                                    !.limit = Some(paginate(features.queryString).limit)]
    /\ UNCHANGED <<now, users, issued, res, inflight>>

NextFeatures ==
    \/ filterStep
    \/ sortStep
    \/ limitFieldsStep
    \/ paginateStep

SpecFeatures == InitFeatures /\ [][NextFeatures]_vars

----------------------------------------------------------------------------
(* Properties *)

Bearer(token) == [hdr |-> Some(token), cookie |-> None]

\* C1: a session token issued at T for a user whose passwordChangedAt has been
\* set to a time >= T (exactly T included) is refused by protect with 401, so
\* no handler runs for it
C1_StaleTokenRefused ==
    \A token \in issued :
        (/\ verifyJWTAsync(token, now) = "ok"
         /\ users[token.sub].exists
         /\ users[token.sub].passwordChangedAt # None
         /\ users[token.sub].passwordChangedAt[1] >= token.iat * MsPerSec)
            => protect(users, now, Bearer(token)).err = AppError(401)

\* the user some stored reset token was made for from the raw token r
HoldsTokenOf(i, r) ==
    /\ users[i].exists
    /\ users[i].resetPasswordToken \in {Some(RawHex(r)), Some(Sha256(r))}
    /\ users[i].resetPasswordTokenExpiresAt # None
    /\ users[i].resetPasswordTokenExpiresAt[1] > now

\* C2: resetPassword with the raw token forgotPassword has just generated for a
\* user, before its expiry and with password = passwordConfirm, finds the user,
\* stores the hash of the new password, clears both reset-token fields and
\* answers 200 with a session token
C2_ForgotThenReset ==
    [][\A r \in RawTokens, p \in PlainTexts, i \in Ids :
          (/\ res.op = "forgotPassword"
           /\ res.code = 200
           /\ HoldsTokenOf(i, r)
           /\ resetPassword(r, p, p))
             => (/\ res'.code = 200
                 /\ res'.tok # None
                 /\ users'[i].password = generateHashedPassword(p)
                 /\ users'[i].resetPasswordToken = None
                 /\ users'[i].resetPasswordTokenExpiresAt = None)]_vars

\* no stored user holds the digest of r with an expiry in the future
NoLiveToken(r) ==
    ~ \E i \in Ids :
        /\ users[i].exists
        /\ users[i].resetPasswordToken = Some(Sha256(r))
        /\ users[i].resetPasswordTokenExpiresAt # None
        /\ users[i].resetPasswordTokenExpiresAt[1] > now

\* C3: resetPassword with a token that matches no stored reset token, or whose
\* stored expiry is not in the future, ends in AppError 400, sends no token and
\* leaves every User record unchanged
C3_BadTokenRejected ==
    [][res'.op = "resetPassword" => \A r \in RawTokens, b \in ResetBodies :
          (NoLiveToken(r) /\ resetPassword(r, b[1], b[2]))
             => (/\ res'.err = AppError(400)
                 /\ res'.tok = None
                 /\ res'.cookie = None
                 /\ issued' = issued
                 /\ users' = users)]_vars

\* resetPassword has answered 400 while a user holds the digest of a token
\* whose expiry has passed
C3_Witness ==
    /\ res.op = "resetPassword"
    /\ res.err = AppError(400)
    /\ \E i \in Ids, r \in RawTokens :
          /\ users[i].exists
          /\ users[i].resetPasswordToken = Some(Sha256(r))
          /\ users[i].resetPasswordTokenExpiresAt # None
          /\ users[i].resetPasswordTokenExpiresAt[1] <= now

\* C4: no stored User record holds a password in clear: every write of the
\* password path stores a bcrypt digest
C4_NoClearPassword ==
    \A i \in Ids : users[i].exists => users[i].password.bcrypt

\* C5: a signup whose body satisfies the schema, with password = passwordConfirm
\* and an unused email, creates the user, answers 201 with a session token and
\* stores a digest the submitted password verifies against
C5_SignupCreates ==
    [][\A b \in SignupBodies :
          (/\ b.password = b.passwordConfirm
           /\ b.password # ""
           /\ ~ \E i \in Ids : users[i].exists /\ users[i].email = b.email
           /\ signup(b.fullname, b.email, b.password, b.passwordConfirm))
             => (/\ res'.code = 201
                 /\ res'.tok # None
                 /\ \E i \in Ids :
                       /\ ~users[i].exists
                       /\ users'[i].exists
                       /\ users'[i].email = b.email
                       /\ users'[i].password # Clear(b.password)
                       /\ comparePasswords(b.password, users'[i].password))]_vars

\* a readable (existing, active) user has this email and this password
Authentic(email, password) ==
    \E i \in Ids :
        /\ users[i].exists
        /\ users[i].active
        /\ users[i].email = email
        /\ users[i].password = generateHashedPassword(password)

\* C6: a signin whose email matches no readable user, or whose password does not
\* verify, ends in AppError 401; one that lacks email or password ends in
\* AppError 400; neither signs a token nor sets the jwt cookie
C6_SigninRejects ==
    [][res'.op = "signin" => \A b \in SigninBodies :
          (~Authentic(b[1], b[2]) /\ signin(b[1], b[2]))
             => (/\ res'.err = IF b[1] = "" \/ b[2] = ""
                               THEN AppError(400) ELSE AppError(401)
                 /\ res'.tok = None
                 /\ res'.cookie = None
                 /\ issued' = issued)]_vars

\* signin has refused a request while an account is switched off
C6_Witness ==
    /\ res.op = "signin"
    /\ res.err = AppError(401)
    /\ res.tok = None
    /\ \E i \in Ids : users[i].exists /\ ~users[i].active

\* the operations whose res.docs is the result of a read (find, findOne,
\* findById); an update answers with the document it has just written
ReadOps == {"getAllUsers", "getUser", "getMe", "signin", "resetPassword"}

\* C7: no read of a handler returns a user whose active flag is false, whatever
\* query string the caller sends: not getAll, not getOne, not the signin lookup
C7_InactiveNeverRead ==
    res.op \in ReadOps => \A i \in res.docs : users[i].exists /\ users[i].active

\* getAll has answered with some users while another user is switched off
C7_Witness ==
    /\ res.op = "getAllUsers"
    /\ res.docs # {}
    /\ \E i \in Ids : users[i].exists /\ ~users[i].active

C9_RefusalIsUnauthorized ==
    res.op = "protect"
        => (/\ ~res.ran
            /\ clientStatus(res) = 401
            /\ \A e \in Envs : translatedStatus(res, e) = 401)

\* C10: every write that changes a stored password also stamps
\* passwordChangedAt, no older than the hook's back-dating of that write
C10_ChangeStamped ==
    [][\A i \in Ids :
          (/\ users[i].exists
           /\ users'[i].exists
           /\ users'[i].password # users[i].password)
             => (/\ users'[i].passwordChangedAt # None
                 /\ users'[i].passwordChangedAt[1] + BackdateMs >= now)]_vars

\* C11: for every user the reset token and its expiry are both unset or both
\* set, and while they are set the expiry lies in the future: a token past its
\* expiry does not remain stored
C11_ResetFieldsPaired ==
    \A i \in Ids :
        users[i].exists
            => (/\ (users[i].resetPasswordToken = None)
                      <=> (users[i].resetPasswordTokenExpiresAt = None)
                /\ users[i].resetPasswordTokenExpiresAt # None
                      => users[i].resetPasswordTokenExpiresAt[1] > now)

\* C13: every error a handler or middleware hands to next is answered by the
\* error controller with a response, whatever NODE_ENV is, and the handler has
\* sent no response of its own
C13_FailureAnswered ==
    res.err # NoErr
        => (/\ res.code = 0
            /\ \A e \in Envs : errorController(res.err, e) # 0)

\* the errors of the store the error controller is to translate
StoreErrors == {"ValidationError", "CastError", "MongoServerError"}

\* C14: in production the error controller answers a validation failure, a
\* cast failure and a duplicate key with 400, and any other error that is no
\* AppError with 500
C14_StoreErrorsTranslated ==
    /\ res.err.kind \in StoreErrors => errorController(res.err, "production") = 400
    /\ res.err.kind \notin StoreErrors \cup {"", "AppError", "JsonWebTokenError",
                                             "TokenExpiredError"}
          => errorController(res.err, "production") = 500

\* C17: signout answers 200 and replaces the jwt cookie by the dummy; a request
\* that carries only that cookie is refused with 401 in every environment
\* mode, while a held token that has not expired and is not older than its
\* user's password change still passes protect as a Bearer header
C17_SignoutOnlyCookie ==
    /\ res.op = "signout"
          => (/\ res.code = 200
              /\ res.cookie = Some(SignedOut)
              /\ LET p == protect(users, now, [hdr |-> None, cookie |-> res.cookie])
                 IN  /\ p.err # NoErr
                     /\ finalhandler(p.err) = 401
                     /\ \A e \in Envs : errorController(p.err, e) = 401)
    /\ \A token \in issued :
          (/\ verifyJWTAsync(token, now) = "ok"
           /\ users[token.sub].exists
           /\ users[token.sub].active
           /\ ~changedPasswordAfter(users[token.sub], token.iat))
              => protect(users, now, Bearer(token)).err = NoErr

\* the existing active users of an email
Owners(email) ==
    {i \in Ids : users[i].exists /\ users[i].active /\ users[i].email = email}

\* C16: forgotPassword for an email no user has hands AppError 403 to next and
\* changes no user; for a user's email it writes the generated token and an
\* expiry of exactly one hour after the request on that user and on no other;
\* when the dispatch throws it leaves both fields of that user unset and hands
\* AppError 500 to next
C16_ForgotStoresToken ==
    [][res'.op = "forgotPassword"
         => \A e \in TargetEmails, r \in RawTokens, d \in BOOLEAN :
              forgotPassword(e, r, d)
                => IF Owners(e) = {}
                   THEN res'.err = AppError(403) /\ users' = users
                   ELSE /\ \A i \in Ids \ Owners(e) : users'[i] = users[i]
                        /\ \A i \in Owners(e) :
                              users'[i] =
                                [users[i] EXCEPT
                                   !.resetPasswordToken =
                                       IF d THEN Some(RawHex(r)) ELSE None,
                                   !.resetPasswordTokenExpiresAt =
                                       IF d THEN Some(now + 60 * 60 * 1000) ELSE None]
                        /\ res'.err = IF d THEN NoErr ELSE AppError(500)
                        /\ res'.code = IF d THEN 200 ELSE 0]_vars

\* forgotPassword has answered 200 and a user carries a token whose expiry is
\* one hour from now
C16_Witness ==
    /\ res.op = "forgotPassword"
    /\ res.code = 200
    /\ \E i \in Ids, r \in RawTokens :
          /\ users[i].resetPasswordToken = Some(RawHex(r))
          /\ users[i].resetPasswordTokenExpiresAt = Some(now + 60 * 60 * 1000)

SuppliedName(body) == IF body.fullname # None THEN body.fullname ELSE body.name

\* C18: updateMe with password or passwordConfirm in the body hands AppError
\* 400 to next and writes nothing; otherwise, when it answers 200, the caller's
\* document has the full name and the email of the body and is otherwise as
\* before, and no other user's document has changed
C18_UpdateMeFrame ==
    [][res'.op = "updateMe"
         => \A c \in Bearers, b \in MeBodies :
              (protect(users, now, c).user # None /\ updateMe(c, b))
                => LET id == protect(users, now, c).user[1] IN
                   IF b.password # None \/ b.passwordConfirm # None
                   THEN res'.err = AppError(400) /\ users' = users
                   ELSE /\ \A j \in Ids \ {id} : users'[j] = users[j]
                        /\ res'.err = NoErr
                              => users'[id] =
                                   [users[id] EXCEPT
                                      !.fullname = IF SuppliedName(b) # None
                                                   THEN SuppliedName(b)[1] ELSE @,
                                      !.email = IF b.email # None
                                                THEN b.email[1] ELSE @]]_vars

\* C12: once two concurrent signups of one email (lower-cased) with matching
\* passwords have both ended, at most one user has that email, at most one of
\* the requests has a session token, and a request without one is answered
\* 400, by the app and by the error controller in production
C12_ConcurrentSignup ==
    (/\ \A r \in Requests :
           /\ inflight[r].pc = "done"
           /\ inflight[r].body.password = inflight[r].body.passwordConfirm
           /\ inflight[r].body.password # ""
     /\ \A r, q \in Requests :
           Lower(inflight[r].body.email) = Lower(inflight[q].body.email))
        => (/\ \A r \in Requests :
                  Cardinality({i \in Ids : /\ users[i].exists
                                           /\ users[i].email =
                                                Lower(inflight[r].body.email)}) <= 1
            /\ Cardinality({r \in Requests : inflight[r].res.tok # None}) <= 1
            /\ \A r \in Requests :
                  inflight[r].res.tok = None
                     => (/\ inflight[r].res.err # NoErr
                         /\ finalhandler(inflight[r].res.err) = 400
                         /\ errorController(inflight[r].res.err, "production") = 400))

\* C19: whatever page and limit a request carries, paginate hands the query a
\* limit that is a positive integer (100 when none is given) and a skip that
\* is (page - 1) * limit for a positive integer page (1 when none is given),
\* so never negative and never NaN
C19_PaginateBounds ==
    features.pc = "paginated"
        => LET lim == features.limit[1]
               skp == features.skip[1]
               noPage == ~ \E t \in features.reqQuery : t[1] = "page"
               noLimit == ~ \E t \in features.reqQuery : t[1] = "limit"
           IN  /\ ~lim.nan
               /\ ~skp.nan
               /\ lim.n >= 1
               /\ skp.n >= 0
               /\ skp.n % lim.n = 0
               /\ noLimit => lim.n = 100
               /\ noPage => skp.n = 0

\* a word with the $ the filter is to put in front of an operator word
Prefixed(w) ==
    IF w \in {"gt", "gte", "lt", "lte", "eq", "ne"} THEN "$" \o w ELSE w

\* the entries of a query string that are no paging, sorting or projection
\* parameter
Constraints(q) == {t \in q : t[1] \notin {"page", "sort", "limit", "fields"}}

\* C20: once filter has run, the filter of the query has no entry under page,
\* sort, limit or fields, has an entry for each other key of the request with
\* the operator words $-prefixed and no entry besides; the builder's
\* queryString is still the request's, so sort, limitFields and paginate work
\* from the request's sort, fields, page and limit
C20_FilterKeys ==
    features.pc # "new"
        => (/\ \A c \in features.cond :
                  /\ c[1] \notin {"page", "sort", "limit", "fields"}
                  /\ c[2] \notin {"gt", "gte", "lt", "lte", "eq", "ne"}
                  /\ \E t \in Constraints(features.reqQuery) :
                        c[1] = Prefixed(t[1]) /\ c[2] = Prefixed(t[2])
            /\ \A t \in Constraints(features.reqQuery) :
                  \E c \in features.cond :
                        c[1] = Prefixed(t[1]) /\ c[2] = Prefixed(t[2])
            /\ features.queryString = features.reqQuery
            /\ \A t \in features.reqQuery :
                  /\ (t[1] = "sort" /\ features.sortBy # None)
                        => features.sortBy # Some("-createdAt")
                  /\ (t[1] = "fields" /\ features.select # None)
                        => features.select # Some("-__v")
                  /\ (t[1] = "limit" /\ t[3] = "2" /\ features.limit # None)
                        => features.limit = Some(Num(2)))

\* the whole chain has run on a request with a sort parameter and a filter
\* on role
C20_Witness ==
    /\ features.pc = "paginated"
    /\ <<"sort", "", "-fullname">> \in features.reqQuery
    /\ <<"role", "", "user">> \in features.cond
    /\ features.sortBy = Some("-fullname")

C22_ResetTokenSingleUse ==
    Cardinality({r \in Requests : inflight[r].res.tok # None}) <= 1

\* milliseconds into a second at which a save may happen
SubSecond == {0, 1, 500, 999}

\* C23: the session token of a signup or resetPassword response passes protect
\* on the next request; at whatever millisecond of a second the save and the
\* signing happen, the token's iat is not earlier than the passwordChangedAt
\* the save hook stamps
C23_FreshTokenAccepted ==
    (res.op \in {"signup", "resetPassword"} /\ res.tok # None)
        => LET id == res.tok[1].sub IN
           /\ protect(users, now, Bearer(res.tok[1])) = [err |-> NoErr, user |-> Some(id)]
           /\ \A d \in SubSecond :
                 ~changedPasswordAfter(preSave(users[id], TRUE, now + d),
                                       signToken(id, now + d).iat)

\* resetPassword has answered with a token and the user's passwordChangedAt is
\* a second before now
C23_Witness ==
    /\ res.op = "resetPassword"
    /\ res.tok # None
    /\ users[res.tok[1].sub].passwordChangedAt = Some(now - 1000)

\* the handlers a user reaches without the admin role
SelfOps == {"signup", "signin", "forgotPassword", "resetPassword", "getMe",
            "updateMe", "deleteMe"}

\* C24: while a stored user is switched off, protect refuses every held token
\* of that user with AppError 401, and no request answered by a handler a user
\* reaches without the admin role reads, changes or switches on that user's
\* document
C24_DeletedStaysOut ==
    [][\A i \in Ids :
          (users[i].exists /\ ~users[i].active)
             => (/\ \A token \in issued :
                       token.sub = i
                          => protect(users, now, Bearer(token)).err = AppError(401)
                 /\ res'.op \in SelfOps
                       => (users'[i] = users[i] /\ i \notin res'.docs))]_vars

\* C25: a request answered by a handler a user reaches without the admin role
\* leaves the role of every stored user as it was, and a user it creates has
\* the role user
C25_RoleOnlyByAdmin ==
    [][res'.op \in SelfOps \cup {"signout", "protect", "restrictTo"}
         => \A i \in Ids :
              users'[i].exists
                 => users'[i].role = IF users[i].exists THEN users[i].role ELSE "user"]_vars

\* updateMe has answered 200 to the user, who still has the role user
C25_Witness ==
    /\ res.op = "updateMe"
    /\ res.code = 200
    /\ res.user # None
    /\ users[res.user[1]].role = "user"

----------------------------------------------------------------------------
(* Password recovery requested again: forgotPassword has answered user 1    *)
(* once, at time 0 with the token r1, and is called again with fresh tokens *)

\* the values randomBytes returns to the later calls
LaterTokens == {"r2", "r3"}

\* the state the first call leaves: user 1 holds r1, due in an hour
InitRecovery ==
    /\ now = 0
    /\ users = [SeedUsers EXCEPT
                   ![1].resetPasswordToken = Some(RawHex("r1")),
                   ![1].resetPasswordTokenExpiresAt = Some(ResetTtlMs)]
    /\ issued = {}
    /\ res = Respond("forgotPassword", 200, None, {})
    /\ inflight = <<>>
    /\ features = <<>>

NextRecovery ==
    \/ Tick
    \/ HourPasses
    \/ \E e \in Emails \cup {UnknownEmail}, r \in LaterTokens, d \in BOOLEAN :
          forgotPassword(e, r, d)
    \/ \E r \in {"r1"} \cup LaterTokens, b \in ResetBodies : resetPassword(r, b[1], b[2])

SpecRecovery == InitRecovery /\ [][NextRecovery]_vars

\* C26: a later forgotPassword that answers 200 leaves the user with the new
\* token and an expiry one hour ahead as the one stored token, and no other
\* token, the first call's included, is stored for or finds that user
C26_SecondCallOverwrites ==
    [][res'.op = "forgotPassword" /\ res'.code = 200
         => \A e \in Emails, r \in LaterTokens :
              forgotPassword(e, r, TRUE)
                 => LET id == CHOOSE i \in findOneByEmail(users, e) : TRUE IN
                    /\ users'[id].resetPasswordToken = Some(RawHex(r))
                    /\ users'[id].resetPasswordTokenExpiresAt = Some(now + ResetTtlMs)
                    /\ \A r0 \in ({"r1"} \cup LaterTokens) \ {r} :
                          /\ users'[id].resetPasswordToken
                                \notin {Some(RawHex(r0)), Some(Sha256(r0))}
                          /\ id \notin findByResetToken(users', Sha256(r0), now')
                          /\ id \notin findByResetToken(users', RawHex(r0), now')]_vars

\* user 1, who held r1 since time 0, was answered 200 by a later call and now
\* holds r2, due an hour after that call
C26_Witness ==
    /\ res.op = "forgotPassword"
    /\ res.code = 200
    /\ now > 0
    /\ users[1].resetPasswordToken = Some(RawHex("r2"))
    /\ users[1].resetPasswordTokenExpiresAt = Some(now + ResetTtlMs)

====
